---- MODULE Spec2Model ----
(***************************************************************************)
(* Model of src/Plugin/core.py: the FirefoxKeywordBookmarks plugin.        *)
(*                                                                         *)
(* A Python str is a sequence of one-character strings (a fixed message    *)
(* text is kept as one element), so that indexing (profile_path[1]),       *)
(* slicing (profile_path[2:]), concatenation (prefix + keyword) and        *)
(* split("\r\n") are computed as the code computes them.  A value that     *)
(* may be None is a record [none, v].  A dict is a function whose DOMAIN   *)
(* is its key set.                                                         *)
(***************************************************************************)
EXTENDS Naturals, Sequences, FiniteSets, Bags

VARIABLES
    cache,      \* self.cache: None or a dict keyword -> Option
    settings,   \* the host's settings: profile_path_data and firefox_fp
    fs,         \* the file system: per profile directory, its places.sqlite
    shown,      \* the options the host displays (last query / context menu)
    reply,      \* the last step: how the handler ended (or that it waits),
                \* and what it opened
    origin,     \* history: what gave self.cache its value, and whether
                \* the settings or the stores changed since
    waiting     \* the handler calls that wait in their await (a bag)

vars == <<cache, settings, fs, shown, reply, origin, waiting>>

----------------------------------------------------------------------------
(* Bounds of the model.                                                    *)

MaxProfiles == 2    \* lines in profile_path_data
MaxRows == 1        \* rows of moz_keywords in one store
MaxRecords == 2     \* rows of moz_keywords in the store of SpecProfile
MaxWaiting == 1     \* handler calls waiting in their await

----------------------------------------------------------------------------
(* Python values.                                                          *)

NoneV == [none |-> TRUE, v |-> <<>>]
Some(x) == [none |-> FALSE, v |-> x]

EmptyDict == <<>>

\* A merge in which the key already present wins.
DictUpdateKeepFirst(d, e) ==
    [k \in (DOMAIN d) \cup (DOMAIN e) |-> IF k \in DOMAIN d THEN d[k] ELSE e[k]]

\* dict.update(e): the keys of e overwrite those of d.
DictUpdateMerge(d, e) ==
    [k \in (DOMAIN d) \cup (DOMAIN e) |-> IF k \in DOMAIN e THEN e[k] ELSE d[k]]

\* d[k] = v
DictSet(d, k, v) ==
    [x \in (DOMAIN d) \cup {k} |-> IF x = k THEN v ELSE d[x]]

CR == "\r"
LF == "\n"
CRLF == <<CR, LF>>

\* The least i with s[i..i+1] = "\r\n", or 0.
FindCRLF(s) ==
    LET hits == {i \in 1..(Len(s) - 1) : s[i] = CR /\ s[i + 1] = LF}
    IN  IF hits = {} THEN 0
        ELSE CHOOSE i \in hits : \A j \in hits : i <= j

\* str.split("\r\n")
RECURSIVE Split(_)
Split(s) ==
    LET i == FindCRLF(s)
    IN  IF i = 0 THEN <<s>>
        ELSE <<SubSeq(s, 1, i - 1)>> \o Split(SubSeq(s, i + 2, Len(s)))

\* "\r\n".join(lines): how the host's settings text box holds several lines.
RECURSIVE Join(_)
Join(lines) ==
    IF Len(lines) = 0 THEN <<>>
    ELSE IF Len(lines) = 1 THEN lines[1]
    ELSE lines[1] \o CRLF \o Join(Tail(lines))

\* f"{v}" of a column value: None formats as the text None.
Format(v) == IF v.none THEN <<"N", "o", "n", "e">> ELSE v.v

----------------------------------------------------------------------------
(* flowpy values built by the plugin.                                      *)

Action(fn, args) == Some([fn |-> fn, args |-> args])

Option(title, sub, action, context_data, icon) ==
    [title |-> title, sub |-> sub, action |-> action,
     context_data |-> context_data, icon |-> icon]

AppIcon == <<"Images/app.png">>
NoIcon == <<>>

----------------------------------------------------------------------------
(* The file system and sqlite3.                                            *)
(* fs[p] is what directory p holds:                                        *)
(*   "nodir"  - p does not exist: sqlite3.connect raises OperationalError  *)
(*   "nofile" - p exists without places.sqlite: connect creates the file   *)
(*   "empty"  - a zero-length places.sqlite: a database with no table      *)
(*   "notdb"  - places.sqlite is not a database: execute raises            *)
(*              DatabaseError, which is not an OperationalError            *)
(*   "db"     - a database with tables moz_keywords and moz_places         *)
(* A moz_keywords row is <<id, keyword, place_id>>; a moz_places row is    *)
(* <<id, url>>, places maps the ids in use to their rows.                  *)

NoStore(kind) == [kind |-> kind, keywords |-> <<>>, places |-> <<>>]
Database(keywords, places) ==
    [kind |-> "db", keywords |-> keywords, places |-> places]

\* What os.path.join(profile_path, "places.sqlite") names.
StoreAt(fsys, profile_path) ==
    IF profile_path \in DOMAIN fsys THEN fsys[profile_path] ELSE NoStore("nodir")

\* sqlite3.connect(file): creates the file when its directory exists.
connect(fsys, profile_path) ==
    LET st == StoreAt(fsys, profile_path)
    IN  IF st.kind = "nodir"
        THEN [exc |-> "OperationalError", fs |-> fsys]
        ELSE IF st.kind = "nofile"
        THEN [exc |-> "none",
              fs |-> [fsys EXCEPT ![profile_path] = NoStore("empty")]]
        ELSE [exc |-> "none", fs |-> fsys]

\* con.execute("SELECT * FROM moz_keywords").fetchall()
SelectKeywords(st) ==
    IF st.kind = "db" THEN [exc |-> "none", rows |-> st.keywords]
    ELSE IF st.kind = "notdb" THEN [exc |-> "DatabaseError", rows |-> <<>>]
    ELSE [exc |-> "OperationalError", rows |-> <<>>]

\* con.execute("SELECT * FROM moz_places WHERE id = ?", (place_id,)).fetchone()
SelectPlace(st, place_id) ==
    IF place_id \in DOMAIN st.places THEN Some(st.places[place_id]) ELSE NoneV

----------------------------------------------------------------------------
(* get_bookmarks                                                           *)

\* The Option built for one keyword row (lines 53-63).
BookmarkOption(keyword, url, profile_path, firefox_fp) ==
    Option(keyword, url,
           Action("open_url", <<firefox_fp, profile_path, url>>),
           <<profile_path, firefox_fp, [keyword |-> keyword, url |-> url]>>,
           AppIcon)

\* The loop over the rows (lines 43-63), from row i on.
RECURSIVE ReadRows(_, _, _, _, _, _)
ReadRows(st, i, final, prefix, profile_path, firefox_fp) ==
    IF i > Len(st.keywords) THEN final
    ELSE LET keyword_data == st.keywords[i]
             place_id == keyword_data[3]
             keyword == prefix \o Format(keyword_data[2])
             place == SelectPlace(st, place_id)
             next == IF place.none THEN final
                     ELSE DictSet(final, keyword,
                                  BookmarkOption(keyword, place.v[2],
                                                 profile_path, firefox_fp))
         IN  ReadRows(st, i + 1, next, prefix, profile_path, firefox_fp)

\* Lines 33-37: the keyword prefix of a configured line (s[1] is Python's s[0]).
PrefixOf(s) == IF s[2] = "|" THEN <<s[1]>> ELSE <<>>

\* Lines 33-37: the directory a configured line names.
PathOf(s) == IF s[2] = "|" THEN SubSeq(s, 3, Len(s)) ELSE s

\* get_bookmarks(profile_path, firefox_fp) on file system fsys: the
\* exception it ends with ("none": it returns final), the file system it
\* leaves, and the directories whose places.sqlite it connected to.
get_bookmarks(profile_path, firefox_fp, fsys) ==
    IF Len(profile_path) < 2
    THEN [exc |-> "IndexError", final |-> EmptyDict, fs |-> fsys,
          opened |-> <<>>]
    ELSE LET prefix == PrefixOf(profile_path)
             path == PathOf(profile_path)
             con == connect(fsys, path)
             sel == SelectKeywords(StoreAt(con.fs, path))
         IN  IF con.exc # "none"
             THEN [exc |-> con.exc, final |-> EmptyDict, fs |-> con.fs,
                   opened |-> <<path>>]
             ELSE IF sel.exc # "none"
             THEN [exc |-> sel.exc, final |-> EmptyDict, fs |-> con.fs,
                   opened |-> <<path>>]
             ELSE [exc |-> "none",
                   final |-> ReadRows(StoreAt(con.fs, path), 1, EmptyDict,
                                      prefix, path, firefox_fp),
                   fs |-> con.fs, opened |-> <<path>>]

----------------------------------------------------------------------------
(* __call__: the query handler.                                            *)

NO_PROFILE_DATA_PATH_ERROR == <<"NO_PROFILE_DATA_PATH_ERROR">>

\* Lines 83-87.
NoProfileOption ==
    Option(<<"Error: No profile data path given">>,
           <<"Open context menu for more options">>,
           NoneV, <<NO_PROFILE_DATA_PATH_ERROR>>, NoIcon)

\* Lines 98-102: the title ends with the configured line that failed.
UnableToOpenOption(path) ==
    Option(<<"Error: Unable to open profile database file. Profile: ">> \o path,
           <<"Are you sure the profile exists and is correct? Click this to open settings menu.">>,
           Action("api.open_settings_menu", <<>>), <<>>, AppIcon)

\* A lookup that falls back on some stored entry when the key is absent.
LookupAny(d, query) ==
    IF query \in DOMAIN d THEN <<d[query]>>
    ELSE IF DOMAIN d # {} THEN <<d[CHOOSE k \in DOMAIN d : TRUE]>>
    ELSE <<>>

\* Lines 105-109: self.cache.get(query), as the list of options returned.
Lookup(d, query) == IF query \in DOMAIN d THEN <<d[query]>> ELSE <<>>

\* Lines 91-103: the loop over the configured lines, from line i on, with
\* self.cache = d so far.  "returned" is the early return of line 97.
RECURSIVE LoadFrom(_, _, _, _, _, _)
LoadFrom(paths, i, d, fsys, firefox_fp, opened) ==
    IF i > Len(paths)
    THEN [exc |-> "none", returned |-> FALSE, cache |-> Some(d), fs |-> fsys,
          options |-> <<>>, opened |-> opened]
    ELSE LET r == get_bookmarks(paths[i], firefox_fp, fsys)
         IN  IF r.exc = "none"
             THEN LoadFrom(paths, i + 1, DictUpdateMerge(d, r.final), r.fs,
                           firefox_fp, opened \o r.opened)
             ELSE IF r.exc = "OperationalError"
             THEN [exc |-> "none", returned |-> TRUE, cache |-> NoneV,
                   fs |-> r.fs, options |-> <<UnableToOpenOption(paths[i])>>,
                   opened |-> opened \o r.opened]
             ELSE [exc |-> r.exc, returned |-> FALSE, cache |-> Some(d),
                   fs |-> r.fs, options |-> <<>>,
                   opened |-> opened \o r.opened]

\* A test that takes an empty text for a configured one.
ProfilePathDataIsNone(profile_path_data) == profile_path_data.none

\* Line 81: not profile_path_data (None, or the empty str).
NotProfilePathData(profile_path_data) ==
    profile_path_data.none \/ Len(profile_path_data.v) = 0

\* A test that takes a loaded but empty dict for no cache.
CacheIsFalsy(c) == c.none \/ DOMAIN c.v = {}

\* Line 90: self.cache is None.
CacheIsNone(c) == c.none

\* __call__(Query(text), settings) with self.cache = c on file system fsys:
\* the exception it ends with ("none": it returns options), self.cache and
\* the file system afterwards, the stores it connected to, and whether it
\* ran the load loop.
__call__(text, sett, c, fsys) ==
    LET profile_path_data == sett.profile_path_data
        firefox_fp == sett.firefox_fp
    IN  IF NotProfilePathData(profile_path_data)
        THEN [exc |-> "none", cache |-> c, fs |-> fsys,
              options |-> <<NoProfileOption>>, opened |-> <<>>,
              loading |-> FALSE]
        ELSE IF CacheIsNone(c)
        THEN LET l == LoadFrom(Split(profile_path_data.v), 1, EmptyDict, fsys,
                               firefox_fp, <<>>)
             IN  [exc |-> l.exc, cache |-> l.cache, fs |-> l.fs,
                  options |-> IF l.exc # "none" THEN <<>>
                              ELSE IF l.returned THEN l.options
                              ELSE Lookup(l.cache.v, text),
                  opened |-> l.opened, loading |-> TRUE]
        ELSE [exc |-> "none", cache |-> c, fs |-> fsys,
              options |-> Lookup(c.v, text), opened |-> <<>>,
              loading |-> FALSE]

----------------------------------------------------------------------------
(* context_menu and the actions.                                           *)

\* name.title() of the two keys of copy_options.
Title(name) == IF name = "keyword" THEN "Keyword" ELSE "Url"

\* Lines 131-140, in the dict's insertion order: keyword, url.
CopyOptions(copy_options) ==
    [i \in 1..2 |->
        LET name == IF i = 1 THEN "keyword" ELSE "url"
            value == IF i = 1 THEN copy_options.keyword ELSE copy_options.url
        IN  Option(<<"Copy ", Title(name)>>, value,
                   Action("copy_text", <<value>>), <<>>, AppIcon)]

\* context_menu(data): unpacking a list that has not three elements raises
\* ValueError (line 129).
context_menu(data) ==
    IF Len(data) > 0 /\ data[1] = NO_PROFILE_DATA_PATH_ERROR
    THEN [exc |-> "none",
          options |->
            <<Option(<<"Open Settings Menu">>, <<>>,
                     Action("api.open_settings_menu", <<>>), <<>>, NoIcon),
              Option(<<"Open Guide">>, <<>>,
                     Action("api.open_url",
                            <<"https://github.com/cibere/Flow.Launcher.Plugin.FirefoxKeywordBookmarks?tab=readme-ov-file#how-to-get-profile-data-path">>),
                     <<>>, NoIcon)>>]
    ELSE IF Len(data) # 3
    THEN [exc |-> "ValueError", options |-> <<>>]
    ELSE LET profile_path == data[1]
             firefox_fp == data[2]
             copy_options == data[3]
         IN  [exc |-> "none",
              options |->
                <<Option(<<"Reload Cache">>, <<>>,
                         Action("reload_cache", <<profile_path, firefox_fp>>),
                         <<>>, AppIcon),
                  Option(<<"Open log file">>,
                         <<"Open FirefoxKeywordBookmarks.log in explorer">>,
                         Action("open_log_file_folder", <<>>), <<>>, AppIcon)>>
                \o CopyOptions(copy_options)]

\* A reload that merges what it read into the previous dict.
reload_cache_merging(path, firefox_fp, c, fsys) ==
    LET r == get_bookmarks(path, firefox_fp, fsys)
    IN  [exc |-> r.exc,
         cache |-> IF r.exc # "none" THEN c
                   ELSE IF c.none THEN Some(r.final)
                   ELSE Some(DictUpdateMerge(c.v, r.final)),
         fs |-> r.fs, opened |-> r.opened]

\* reload_cache(path, firefox_fp) with self.cache = c: line 167 assigns
\* only when get_bookmarks returns; an exception leaves self.cache as it was.
reload_cache(path, firefox_fp, c, fsys) ==
    LET r == get_bookmarks(path, firefox_fp, fsys)
    IN  [exc |-> r.exc,
         cache |-> IF r.exc = "none" THEN Some(r.final) ELSE c,
         fs |-> r.fs, opened |-> r.opened]

----------------------------------------------------------------------------
(* The inputs the host and the user can supply.                            *)

PathA == <<"a", "1">>
PathB == <<"b", "1">>
Dirs == {PathA, PathB}

\* The lines a user may type: a profile directory, one with the keyword
\* prefix w, and a one-character relative directory.
Lines == {PathA, <<"w", "|">> \o PathB, <<"a">>}

\* The setting is absent, or holds the text box's lines (none: it is empty).
ProfilePathData ==
    {NoneV} \cup
    {Some(Join(ls)) : ls \in UNION {[1..n -> Lines] : n \in 0..MaxProfiles}}

\* firefox_fp is left unset here: it only travels inside the options.
FirefoxFp == {NoneV}

SettingsSet == [profile_path_data : ProfilePathData, firefox_fp : FirefoxFp]

\* The keywords a profile's bookmarks may carry: with the prefix w, the
\* keyword m of PathB collides with the keyword wm of PathA.
KeywordsOf(dir) == IF dir = PathA THEN {<<"m">>, <<"w", "m">>} ELSE {<<"m">>}
Texts == {<<>>, <<"m">>, <<"w", "m">>}

UrlOf(dir) == <<"https://", dir[1]>>

KeywordRows(dir) ==
    UNION {{[i \in 1..n |-> <<i, Some(kws[i]), 1>>] :
              kws \in [1..n -> KeywordsOf(dir)]} : n \in 0..MaxRows}

StoreStates(dir) ==
    {NoStore("nodir"), NoStore("notdb")} \cup
    {Database(rows, [id \in {1} |-> <<id, UrlOf(dir)>>]) :
       rows \in KeywordRows(dir)}

----------------------------------------------------------------------------
(* The state machine: the handlers the host can invoke, and the changes    *)
(* the user and the browser make between them.  __call__ and context_menu  *)
(* never await, so under the host's asyncio dispatch each is one step.     *)
(* reload_cache, open_url, copy_text and open_log_file_folder await a call *)
(* of the host's api before they return: each is a step up to its await    *)
(* and a step for its return, and other handlers run between the two.      *)

Origin(by, changed) == [by |-> by, changed |-> changed]

Reply(op, exc, opened, text, loading) ==
    [op |-> op, exc |-> exc, opened |-> opened, text |-> text,
     loading |-> loading]

\* __init__ (line 24): self.cache = None.
Init ==
    /\ cache = NoneV
    /\ settings \in SettingsSet
    /\ fs \in {f \in [Dirs -> UNION {StoreStates(d) : d \in Dirs}] :
                 \A d \in Dirs : f[d] \in StoreStates(d)}
    /\ shown = <<>>
    /\ reply = Reply("init", "none", <<>>, <<>>, FALSE)
    /\ origin = Origin("none", FALSE)
    /\ waiting = EmptyBag

\* The host delivers a query.
Query(text) ==
    LET r == __call__(text, settings, cache, fs)
    IN  /\ cache' = r.cache
        /\ fs' = r.fs
        /\ shown' = r.options
        /\ reply' = Reply("query", r.exc, r.opened, text, r.loading)
        /\ origin' = IF ~r.loading THEN origin
                     ELSE IF r.exc # "none" THEN Origin("aborted", FALSE)
                     ELSE IF r.cache.none THEN Origin("none", FALSE)
                     ELSE Origin("lazy", FALSE)
        /\ UNCHANGED <<settings, waiting>>

\* The host asks for the context menu of a displayed option.
ContextMenu(i) ==
    LET r == context_menu(shown[i].context_data)
    IN  /\ shown' = r.options
        /\ reply' = Reply("context_menu", r.exc, <<>>, <<>>, FALSE)
        /\ UNCHANGED <<cache, settings, fs, origin, waiting>>

\* A reload that takes the browser directory from the current settings.
ReloadCacheCurrentFp(i) ==
    /\ ~shown[i].action.none
    /\ shown[i].action.v.fn = "reload_cache"
    /\ LET r == reload_cache(shown[i].action.v.args[1], settings.firefox_fp,
                             cache, fs)
       IN  /\ r.exc # "none" \/ BagCardinality(waiting) < MaxWaiting
           /\ cache' = r.cache
           /\ fs' = r.fs
           /\ reply' = [op |-> IF r.exc = "none" THEN "reload_cache:await"
                                ELSE "reload_cache",
                        exc |-> r.exc, opened |-> r.opened,
                        text |-> shown[i].action.v.args[1], loading |-> FALSE]
           /\ origin' = IF r.exc = "none" THEN Origin("reload", FALSE)
                        ELSE origin
           /\ waiting' = IF r.exc # "none" THEN waiting
                         ELSE waiting (+) SetToBag({"reload_cache"})
    /\ UNCHANGED <<settings, shown>>

\* The host runs the action of a displayed option.
Runs(i, fn) == ~shown[i].action.none /\ shown[i].action.v.fn = fn
Args(i) == shown[i].action.v.args

\* Every action handler awaits a call of the host's api before it returns,
\* and other handlers run meanwhile: waiting holds the names of the
\* handlers whose calls wait (nothing the rest of such a call does depends
\* on its arguments), and the step that starts the wait leaves in reply
\* the handler's name followed by ":await", with what the call was given
\* and what it opened.
\* A waiting call of handler fn gets its awaited result and returns its
\* ExecuteResponse: this step opens and changes nothing, and the options
\* stay as they are on display.
Returns(fn) ==
    /\ reply' = Reply(fn, "none", <<>>, <<>>, FALSE)
    /\ waiting' = waiting (-) SetToBag({fn})
    /\ UNCHANGED <<cache, settings, fs, shown, origin>>

\* reload_cache up to its await: line 167 reads the store and assigns
\* self.cache, or raises, which ends the handler; otherwise the handler
\* waits in api.show_message (line 168).  The model holds at most
\* MaxWaiting waiting calls: a call that would wait is not started beyond
\* that, a call that raises always is.
ReloadCache(i) ==
    /\ Runs(i, "reload_cache")
    /\ LET r == reload_cache(Args(i)[1], Args(i)[2], cache, fs)
       IN  /\ r.exc # "none" \/ BagCardinality(waiting) < MaxWaiting
           /\ cache' = r.cache
           /\ fs' = r.fs
           /\ reply' = IF r.exc = "none"
                       THEN Reply("reload_cache:await", "none", r.opened,
                                  Args(i)[1], FALSE)
                       ELSE Reply("reload_cache", r.exc, r.opened,
                                  Args(i)[1], FALSE)
           /\ origin' = IF r.exc = "none" THEN Origin("reload", FALSE)
                        ELSE origin
           /\ waiting' = IF r.exc = "none"
                         THEN waiting (+) SetToBag({"reload_cache"})
                         ELSE waiting
    /\ UNCHANGED <<settings, shown>>

\* api.show_message returns to a waiting reload_cache, which returns
\* ExecuteResponse(False) (line 173).
ReloadCacheReturns ==
    BagIn("reload_cache", waiting) /\ Returns("reload_cache")

\* open_url up to its await (lines 175-185): the url goes to the host
\* (api.open_url) or into a shell command (api.run_shell_cmd).
OpenUrl(i) ==
    /\ Runs(i, "open_url")
    /\ BagCardinality(waiting) < MaxWaiting
    /\ reply' = Reply("open_url:await", "none", <<>>, Args(i)[3], FALSE)
    /\ waiting' = waiting (+) SetToBag({"open_url"})
    /\ UNCHANGED <<cache, settings, fs, shown, origin>>

\* The api call returns to open_url, which returns (line 186).
OpenUrlReturns == BagIn("open_url", waiting) /\ Returns("open_url")

\* copy_text up to its await (lines 188-194): the text goes to the
\* clipboard, then the handler waits in api.show_message.
CopyText(i) ==
    /\ Runs(i, "copy_text")
    /\ BagCardinality(waiting) < MaxWaiting
    /\ reply' = Reply("copy_text:await", "none", <<>>, Args(i)[1], FALSE)
    /\ waiting' = waiting (+) SetToBag({"copy_text"})
    /\ UNCHANGED <<cache, settings, fs, shown, origin>>

\* api.show_message returns to copy_text, which returns (line 195).
CopyTextReturns == BagIn("copy_text", waiting) /\ Returns("copy_text")

\* open_log_file_folder up to its await (lines 158-163).
OpenLogFileFolder(i) ==
    /\ Runs(i, "open_log_file_folder")
    /\ BagCardinality(waiting) < MaxWaiting
    /\ reply' = Reply("open_log_file_folder:await", "none", <<>>, <<>>, FALSE)
    /\ waiting' = waiting (+) SetToBag({"open_log_file_folder"})
    /\ UNCHANGED <<cache, settings, fs, shown, origin>>

\* api.run_shell_cmd returns to open_log_file_folder, which returns
\* (line 164).
OpenLogFileFolderReturns ==
    BagIn("open_log_file_folder", waiting) /\ Returns("open_log_file_folder")

\* The user edits the plugin's settings; the launcher's window, which
\* hides when it loses the focus, displays nothing afterwards.
ChangeSettings ==
    /\ settings' \in SettingsSet \ {settings}
    /\ shown' = <<>>
    /\ reply' = Reply("away", "none", <<>>, <<>>, FALSE)
    /\ origin' = Origin(origin.by, origin.by # "none")
    /\ UNCHANGED <<cache, fs, waiting>>

\* The user changes a profile directory or its bookmarks in the browser;
\* the launcher's window displays nothing afterwards.
ChangeStore ==
    /\ \E d \in Dirs : \E st \in StoreStates(d) \ {fs[d]} :
          fs' = [fs EXCEPT ![d] = st]
    /\ shown' = <<>>
    /\ reply' = Reply("away", "none", <<>>, <<>>, FALSE)
    /\ origin' = Origin(origin.by, origin.by # "none")
    /\ UNCHANGED <<cache, settings, waiting>>

\* The handlers that read or change self.cache and the stores, and the
\* changes of settings and stores.  open_url, copy_text and
\* open_log_file_folder, which change nothing but reply and waiting, are
\* steps of SpecProfile.
Next ==
    \/ \E text \in Texts : Query(text)
    \/ \E i \in 1..Len(shown) : ContextMenu(i)
    \/ \E i \in 1..Len(shown) : ReloadCache(i)
    \/ ReloadCacheReturns
    \/ ChangeSettings
    \/ ChangeStore

Spec == Init /\ [][Next]_vars

----------------------------------------------------------------------------
(* A second specification, of one configured profile and every handler:    *)
(* the profile's store holds any keyword records (keyword m with place 1   *)
(* or 3 or the id 2 of no place; keyword NULL or empty with place 1), its  *)
(* directory may lack places.sqlite, and the settings (the profile's line  *)
(* with or without a prefix, firefox_fp unset or a directory) may change.  *)
(* Nothing but the plugin touches the profile directory here.              *)

RecordKeywords == {NoneV, Some(<<>>), Some(<<"m">>)}
PlaceIds == {1, 2, 3}

\* moz_places has the rows 1 and 3, with different urls.
ProfilePlaces ==
    [id \in {1, 3} |-> <<id, <<"https://", IF id = 1 THEN "x" ELSE "y">>>>]

\* <<keyword, place_id>> of one row of moz_keywords.
RecordKinds ==
    {kp \in RecordKeywords \X PlaceIds : kp[1] = Some(<<"m">>) \/ kp[2] = 1}

Records ==
    UNION {{[i \in 1..n |-> <<i, kps[i][1], kps[i][2]>>] :
              kps \in [1..n -> RecordKinds]} :
           n \in 0..MaxRecords}

ProfileStores ==
    {NoStore("nodir"), NoStore("nofile"), NoStore("empty"), NoStore("notdb")}
    \cup {Database(rows, ProfilePlaces) : rows \in Records}

FirefoxDirs == {NoneV, Some(<<"f">>)}

ProfileSettings ==
    [profile_path_data : {Some(PathA), Some(<<"w", "|">> \o PathA)},
     firefox_fp : FirefoxDirs]

InitProfile ==
    /\ cache = NoneV
    /\ settings \in ProfileSettings
    /\ \E st \in ProfileStores :
          fs = [d \in Dirs |-> IF d = PathA THEN st ELSE NoStore("nodir")]
    /\ shown = <<>>
    /\ reply = Reply("init", "none", <<>>, <<>>, FALSE)
    /\ origin = Origin("none", FALSE)
    /\ waiting = EmptyBag

\* A settings change that also drops the cache.
ChangeProfileSettingsInvalidating ==
    /\ settings' \in ProfileSettings \ {settings}
    /\ cache' = NoneV
    /\ shown' = <<>>
    /\ reply' = Reply("away", "none", <<>>, <<>>, FALSE)
    /\ origin' = Origin("none", FALSE)
    /\ UNCHANGED <<fs, waiting>>

\* The user edits the profile's line or the browser directory in the
\* settings; the launcher's window displays nothing afterwards.
ChangeProfileSettings ==
    /\ settings' \in ProfileSettings \ {settings}
    /\ shown' = <<>>
    /\ reply' = Reply("away", "none", <<>>, <<>>, FALSE)
    /\ origin' = Origin(origin.by, origin.by # "none")
    /\ UNCHANGED <<cache, fs, waiting>>

NextProfile ==
    \/ \E text \in Texts : Query(text)
    \/ \E i \in 1..Len(shown) : ContextMenu(i)
    \/ \E i \in 1..Len(shown) : ReloadCache(i)
    \/ ReloadCacheReturns
    \/ OpenUrlReturns
    \/ CopyTextReturns
    \/ OpenLogFileFolderReturns
    \/ \E i \in 1..Len(shown) : OpenUrl(i)
    \/ \E i \in 1..Len(shown) : CopyText(i)
    \/ \E i \in 1..Len(shown) : OpenLogFileFolder(i)
    \/ ChangeProfileSettings

SpecProfile == InitProfile /\ [][NextProfile]_vars

----------------------------------------------------------------------------
(* Vocabulary of the properties, stated without the code's loops.           *)

\* The setting holds at least one character.
Configured(sett) ==
    ~sett.profile_path_data.none /\ Len(sett.profile_path_data.v) > 0

ConfiguredLines(sett) == Split(sett.profile_path_data.v)

\* The line names a store that opens and can be queried.
Readable(line, fsys) ==
    Len(line) >= 2 /\ StoreAt(fsys, PathOf(line)).kind = "db"

AllReadable(sett, fsys) ==
    \A i \in 1..Len(ConfiguredLines(sett)) :
        Readable(ConfiguredLines(sett)[i], fsys)

\* Row j of the line's store is a keyword record resolving to full keyword k.
Resolves(line, fsys, j, k) ==
    LET st == StoreAt(fsys, PathOf(line))
    IN  /\ PrefixOf(line) \o Format(st.keywords[j][2]) = k
        /\ st.keywords[j][3] \in DOMAIN st.places

\* The full keywords the line's store contributes.
ProducedKeys(line, fsys) ==
    LET st == StoreAt(fsys, PathOf(line))
    IN  {PrefixOf(line) \o Format(st.keywords[j][2]) :
           j \in {x \in 1..Len(st.keywords) :
                    st.keywords[x][3] \in DOMAIN st.places}}

\* <<i, j>>: row j of configured line i resolves to k.
Producers(lines, fsys, k) ==
    {ij \in UNION {{<<i, j>> :
                      j \in 1..Len(StoreAt(fsys, PathOf(lines[i])).keywords)} :
                   i \in 1..Len(lines)} :
        Resolves(lines[ij[1]], fsys, ij[2], k)}

\* The producer that comes last: the last line, and in it the last row.
LastOf(P) ==
    CHOOSE ij \in P : \A o \in P :
        o[1] < ij[1] \/ (o[1] = ij[1] /\ o[2] <= ij[2])

\* The entry a producer yields.
EntryOf(lines, fsys, ij, k, firefox_fp) ==
    LET st == StoreAt(fsys, PathOf(lines[ij[1]]))
    IN  BookmarkOption(k, st.places[st.keywords[ij[2]][3]][2],
                       PathOf(lines[ij[1]]), firefox_fp)

\* What a query for k returns from the merge of all the lines' stores.
Merged(lines, fsys, k, firefox_fp) ==
    LET P == Producers(lines, fsys, k)
    IN  IF P = {} THEN <<>>
        ELSE <<EntryOf(lines, fsys, LastOf(P), k, firefox_fp)>>

\* The prefix and the directory of a configured line, as the specification
\* words them: the separator is looked for in a line that has a second
\* character, and any other line is a directory without prefix.
ClaimedPrefix(s) == IF Len(s) >= 2 /\ s[2] = "|" THEN <<s[1]>> ELSE <<>>
ClaimedPath(s) == IF Len(s) >= 2 /\ s[2] = "|" THEN SubSeq(s, 3, Len(s)) ELSE s

\* The line the last handler read: the configured one for a query's load,
\* the path argument for a reload.
LineRead ==
    IF reply.op \in {"reload_cache", "reload_cache:await"} THEN reply.text
    ELSE ConfiguredLines(settings)[1]

\* The last handler read one profile with get_bookmarks, and it returned.
ProfileWasRead ==
    \/ reply.op = "reload_cache:await"
    \/ /\ reply.op = "query"
       /\ reply.loading
       /\ reply.exc = "none"
       /\ ~cache.none

\* The keyword records the specification counts as valid: the keyword has
\* a value, the value is not empty, and the place exists.
ValidRecords(st) ==
    {j \in 1..Len(st.keywords) :
        /\ ~st.keywords[j][2].none
        /\ Len(st.keywords[j][2].v) > 0
        /\ st.keywords[j][3] \in DOMAIN st.places}

\* The last valid record whose full keyword is k.
LastValid(st, prefix, k) ==
    LET S == {j \in ValidRecords(st) : prefix \o st.keywords[j][2].v = k}
    IN  CHOOSE j \in S : \A o \in S : o <= j

\* The browser-directory values an option carries: the first argument of
\* its open action, the second of a reload action, and the second element
\* of a bookmark's context data.
FpsOfOption(o) ==
    (IF ~o.action.none /\ o.action.v.fn = "open_url"
     THEN {o.action.v.args[1]}
     ELSE IF ~o.action.none /\ o.action.v.fn = "reload_cache"
     THEN {o.action.v.args[2]}
     ELSE {})
    \cup (IF Len(o.context_data) = 3 THEN {o.context_data[2]} ELSE {})

\* The values carried by the entries of the cache and by the options on
\* display.
CarriedFps(c, sh) ==
    (IF c.none THEN {} ELSE UNION {FpsOfOption(c.v[k]) : k \in DOMAIN c.v})
    \cup UNION {FpsOfOption(sh[i]) : i \in 1..Len(sh)}

\* The first configured line whose store does not open.
FirstUnreadable(lines, fsys) ==
    CHOOSE i \in 1..Len(lines) :
        /\ ~Readable(lines[i], fsys)
        /\ \A j \in 1..(i - 1) : Readable(lines[j], fsys)

\* The line names a directory that does not exist: its store is unavailable.
Unavailable(line, fsys) ==
    Len(line) >= 2 /\ StoreAt(fsys, PathOf(line)).kind = "nodir"

----------------------------------------------------------------------------
(* C1: after a lazy load over a configuration whose stores all open, a     *)
(* query for k returns the entry whose full keyword is k exactly when some *)
(* configured profile's store holds a keyword record resolving to k, and   *)
(* of several such profiles the one listed last supplies the entry.        *)
(* Checked in every state reached by a query while the cache is the one    *)
(* the lazy load built and neither settings nor stores changed since.      *)
C1_LookupAfterLazyLoad ==
    (/\ reply.op = "query"
     /\ origin = Origin("lazy", FALSE)
     /\ Configured(settings)
     /\ AllReadable(settings, fs))
    => shown = Merged(ConfiguredLines(settings), fs, reply.text,
                      settings.firefox_fp)

\* Two configured profiles produce the queried keyword, and the query
\* returned the entry of the one listed last.
C1_Witness ==
    /\ reply.op = "query"
    /\ origin = Origin("lazy", FALSE)
    /\ Configured(settings)
    /\ AllReadable(settings, fs)
    /\ LET P == Producers(ConfiguredLines(settings), fs, reply.text)
       IN  /\ \E x \in P : \E y \in P :
                 PathOf(ConfiguredLines(settings)[x[1]]) #
                 PathOf(ConfiguredLines(settings)[y[1]])
           /\ Len(shown) = 1
           /\ shown[1].context_data[1] =
                PathOf(ConfiguredLines(settings)[LastOf(P)[1]])
           /\ shown[1].title = reply.text

----------------------------------------------------------------------------
(* C2: a query that finds the cache loaded connects to no store, also when *)
(* the loaded cache is empty; the query whose load succeeds connects once  *)
(* to each configured profile's store, in the configured order.  (Only the *)
(* query handler leaves reply.op = "query".)                               *)
C2_OneLoadThenNoReads ==
    [][reply'.op = "query" =>
          /\ ~cache.none => (reply'.opened = <<>> /\ cache' = cache)
          /\ (cache.none /\ ~cache'.none /\ reply'.exc = "none") =>
                reply'.opened =
                  [i \in 1..Len(ConfiguredLines(settings)) |->
                     PathOf(ConfiguredLines(settings)[i])]]_vars

\* A query answered from a cache that a lazy load left loaded and empty.
C2_Witness ==
    /\ reply.op = "query"
    /\ ~reply.loading
    /\ reply.opened = <<>>
    /\ Configured(settings)
    /\ origin.by = "lazy"
    /\ cache = Some(EmptyDict)

----------------------------------------------------------------------------
(* C3: after a load in which some configured profile's store cannot be     *)
(* opened or queried, the cache is not loaded (its entries are what they   *)
(* were before the attempt: none).  Stated for configurations whose lines  *)
(* all name a directory, so that only a store can fail.                    *)
C3_FailedLoadLeavesCacheUnloaded ==
    (/\ reply.op = "query"
     /\ reply.loading
     /\ \A i \in 1..Len(ConfiguredLines(settings)) :
           Len(ConfiguredLines(settings)[i]) >= 2
     /\ ~AllReadable(settings, fs))
    => cache.none

----------------------------------------------------------------------------
(* C4: after a reload that fails because the store it reads is             *)
(* unavailable, the cache is unloaded.  (A reload that fails ends at line  *)
(* 167, with its exception.)                                               *)
C4_FailedReloadUnloadsCache ==
    (/\ reply.op = "reload_cache"
     /\ reply.exc # "none"
     /\ ~Readable(reply.text, fs)) => cache.none

----------------------------------------------------------------------------
(* C5: a reload connects to the store whatever the cache holds, and after  *)
(* a successful reload the cache's keywords are exactly those its own read *)
(* produced, each entry coming from the profile read: nothing of the       *)
(* previous map remains.  The cache is looked at when the reload has       *)
(* assigned it and waits for the host to show its message: other handlers  *)
(* may run before it returns.                                              *)
C5_ReloadReplaces ==
    /\ (\/ reply.op = "reload_cache:await"
        \/ reply.op = "reload_cache" /\ reply.exc # "none") =>
          reply.opened = <<PathOf(reply.text)>>
    /\ reply.op = "reload_cache:await" =>
          /\ ~cache.none
          /\ DOMAIN cache.v = ProducedKeys(reply.text, fs)
          /\ \A k \in DOMAIN cache.v :
                /\ cache.v[k].title = k
                /\ cache.v[k].context_data[1] = PathOf(reply.text)

\* A reload succeeded from the context menu of an entry whose keyword, a
\* key of the previous map, is no longer in the cache.
C5_Witness ==
    /\ reply.op = "reload_cache:await"
    /\ \E i \in 1..Len(shown) :
          /\ shown[i].title = <<"Copy ", "Keyword">>
          /\ shown[i].sub \notin DOMAIN cache.v

----------------------------------------------------------------------------
(* C6: a successful reload issued after a successful lazy load, with the   *)
(* settings and the stores unchanged, leaves the result of every lookup    *)
(* unchanged.                                                              *)
C6_ReloadLeavesLookupsUnchanged ==
    [][\A i \in 1..Len(shown) :
          (/\ ReloadCache(i)
           /\ origin = Origin("lazy", FALSE)
           /\ reply'.exc = "none")
          => \A k \in Texts : Lookup(cache'.v, k) = Lookup(cache.v, k)]_vars

----------------------------------------------------------------------------
(* C7: a load connects to the store at s[2:] and stores its keywords under *)
(* s[0] + w when the second character of the configured line s is the      *)
(* separator, and otherwise connects to the store at s and stores its      *)
(* keywords unchanged.  Stated of the first configured line.               *)
C7_PrefixDerivation ==
    (reply.op = "query" /\ reply.loading) =>
        LET s == ConfiguredLines(settings)[1]
            st == StoreAt(fs, ClaimedPath(s))
        IN  /\ Len(reply.opened) >= 1
            /\ reply.opened[1] = ClaimedPath(s)
            /\ (Len(ConfiguredLines(settings)) = 1 /\ ~cache.none) =>
                  DOMAIN cache.v =
                    {ClaimedPrefix(s) \o Format(st.keywords[j][2]) :
                       j \in {x \in 1..Len(st.keywords) :
                                st.keywords[x][3] \in DOMAIN st.places}}

----------------------------------------------------------------------------
(* C8: a query that finds the profile setting absent or empty returns the  *)
(* one "No profile data path given" option, raises nothing, connects to no *)
(* store and leaves the cache as it was; and while the cache is unloaded   *)
(* no reload action is on offer, so a query is the only load attempt.      *)
C8_NoProfilesConfigured ==
    /\ [][(reply'.op = "query" /\ ~Configured(settings)) =>
               /\ shown' = <<NoProfileOption>>
               /\ reply'.exc = "none"
               /\ reply'.opened = <<>>
               /\ fs' = fs
               /\ cache' = cache]_vars
    /\ [](cache.none => \A i \in 1..Len(shown) : ~Runs(i, "reload_cache"))

\* A query met the empty (not absent) setting with the cache unloaded.
C8_Witness ==
    /\ reply.op = "query"
    /\ settings.profile_path_data = Some(<<>>)
    /\ shown = <<NoProfileOption>>
    /\ cache.none

----------------------------------------------------------------------------
(* C9: no lookup is answered from a map into which only some of the        *)
(* configured profiles' entries have been merged: whenever a query is      *)
(* answered from the cache, with settings and stores as they were when the *)
(* cache got its value, the cache holds the keywords of every configured   *)
(* profile whose store can be read.                                        *)
C9_NoLookupFromPartialMap ==
    (/\ reply.op = "query"
     /\ reply.exc = "none"
     /\ Configured(settings)
     /\ ~cache.none
     /\ ~origin.changed)
    => \A i \in 1..Len(ConfiguredLines(settings)) :
          Readable(ConfiguredLines(settings)[i], fs) =>
             ProducedKeys(ConfiguredLines(settings)[i], fs) \subseteq DOMAIN cache.v

----------------------------------------------------------------------------
(* C10: every error outcome reaches the host as one result option and not  *)
(* as an exception: the missing setting, a store that cannot be opened     *)
(* during a lazy load (the option naming the configured line), and a store *)
(* that cannot be opened during a reload.                                  *)
C10_ErrorsAreResultOptions ==
    /\ (reply.op = "query" /\ ~Configured(settings)) =>
          (reply.exc = "none" /\ shown = <<NoProfileOption>>)
    /\ (/\ reply.op = "query"
        /\ reply.loading
        /\ ~AllReadable(settings, fs)
        /\ Unavailable(ConfiguredLines(settings)[
                         FirstUnreadable(ConfiguredLines(settings), fs)], fs))
       => /\ reply.exc = "none"
          /\ shown = <<UnableToOpenOption(ConfiguredLines(settings)[
                         FirstUnreadable(ConfiguredLines(settings), fs)])>>
    /\ (reply.op = "reload_cache" /\ Unavailable(reply.text, fs)) =>
          reply.exc = "none"

----------------------------------------------------------------------------
(* C11: when the most recent load attempt failed (or none was made), the   *)
(* next query that meets a non-empty setting runs the load loop again, and *)
(* if every configured store opens it returns the lookup in the merge of   *)
(* all configured profiles: no failed load leaves a retained map behind.   *)
C11_FreshLoadAfterFailedLoad ==
    [][(/\ reply'.op = "query"
        /\ Configured(settings)
        /\ origin.by \in {"none", "aborted"})
       => /\ reply'.loading
          /\ AllReadable(settings, fs) =>
                shown' = Merged(ConfiguredLines(settings), fs, reply'.text,
                                settings.firefox_fp)]_vars

----------------------------------------------------------------------------
(* C12: a query that finds the cache loaded runs no load, connects to no   *)
(* store, raises nothing and leaves the cache as it is; while the profile  *)
(* setting is non-empty it returns the entry stored under the queried text *)
(* if there is one and nothing otherwise, and while the setting is absent  *)
(* or empty it returns the "No profile data path given" option.            *)
C12_LoadedCacheAnswers ==
    [][(reply'.op = "query" /\ ~cache.none) =>
          /\ ~reply'.loading
          /\ reply'.opened = <<>>
          /\ reply'.exc = "none"
          /\ cache' = cache
          /\ fs' = fs
          /\ shown' = IF ~Configured(settings) THEN <<NoProfileOption>>
                      ELSE IF reply'.text \in DOMAIN cache.v
                      THEN <<cache.v[reply'.text]>>
                      ELSE <<>>]_vars

\* A query for a stored keyword met a loaded cache and an empty setting,
\* and was answered with the error option.
C12_Witness ==
    /\ reply.op = "query"
    /\ ~reply.loading
    /\ ~cache.none
    /\ reply.text \in DOMAIN cache.v
    /\ ~Configured(settings)
    /\ shown = <<NoProfileOption>>

\* C12 as the specification words it: a query that finds the cache loaded
\* returns the stored entry or nothing, and never an error option,
\* whatever the settings hold.
C12_NeverAnErrorWhenLoaded ==
    [][(reply'.op = "query" /\ ~cache.none) =>
          /\ ~reply'.loading
          /\ reply'.opened = <<>>
          /\ shown' = IF reply'.text \in DOMAIN cache.v
                      THEN <<cache.v[reply'.text]>>
                      ELSE <<>>]_vars

----------------------------------------------------------------------------
(* C13: the cache starts absent; a step that finds it loaded changes its   *)
(* entries only if it is the assignment of a reload (which then waits for  *)
(* the host's message), and never leaves it absent (so it becomes absent   *)
(* by nothing else than a failed load attempt); queries, context-menu      *)
(* requests, the open-URL, copy-text and open-log-folder actions up to     *)
(* their await and at their return, the return of a reload, a reload that  *)
(* raises and changes of the settings leave a loaded cache exactly as it   *)
(* is.                                                                     *)
C13_CacheLifecycle ==
    /\ (reply.op = "init" => cache.none)
    /\ [][~cache.none =>
            /\ cache' # cache => reply'.op = "reload_cache:await"
            /\ ~cache'.none
            /\ reply'.op \in {"query", "context_menu", "away",
                              "open_url:await", "open_url",
                              "copy_text:await", "copy_text",
                              "open_log_file_folder:await",
                              "open_log_file_folder", "reload_cache"}
                  => cache' = cache]_vars

\* The cache a lazy load built is still there after the settings
\* changed, a query was answered from it and the copy-text action of the
\* keyword of one of its entries ran.
C13_Witness ==
    /\ reply.op = "copy_text:await"
    /\ origin = Origin("lazy", TRUE)
    /\ ~cache.none
    /\ reply.text \in DOMAIN cache.v

----------------------------------------------------------------------------
(* C15: a query that finds the cache unloaded and either carries an empty  *)
(* text or meets an absent or empty profile setting runs no load, connects *)
(* to no store and leaves the cache unloaded.                              *)
C15_NoLoadWithoutTextOrProfiles ==
    [][(/\ reply'.op = "query"
        /\ cache.none
        /\ (reply'.text = <<>> \/ ~Configured(settings)))
       => /\ ~reply'.loading
          /\ reply'.opened = <<>>
          /\ cache'.none]_vars

----------------------------------------------------------------------------
(* C17: whenever the cache holds what a query's load loop left in it, and  *)
(* neither the settings nor the stores changed since, every configured     *)
(* line was read and a lookup of any keyword gives what the merge of all   *)
(* the configured lines' stores gives: the cache is never the merge of a   *)
(* leading part of the lines only.                                         *)
C17_LoadedImpliesComplete ==
    (/\ ~cache.none
     /\ origin.by \in {"lazy", "aborted"}
     /\ ~origin.changed)
    => /\ AllReadable(settings, fs)
       /\ DOMAIN cache.v =
            UNION {ProducedKeys(ConfiguredLines(settings)[i], fs) :
                     i \in 1..Len(ConfiguredLines(settings))}
       /\ \A k \in DOMAIN cache.v :
             <<cache.v[k]>> = Merged(ConfiguredLines(settings), fs, k,
                                    settings.firefox_fp)

----------------------------------------------------------------------------
(* C14: reading a profile whose store is a database raises nothing, and    *)
(* the map it returns has exactly the keys prefix + keyword of the keyword *)
(* records whose keyword is neither missing nor empty and whose place      *)
(* exists; each key's entry carries the url of the place of the last such  *)
(* record with that keyword.  Records with a missing or empty keyword or   *)
(* a missing place contribute no key.                                      *)
C14_ReaderResult ==
    LET st == StoreAt(fs, PathOf(LineRead))
        prefix == PrefixOf(LineRead)
    IN  /\ (/\ reply.op \in {"query", "reload_cache", "reload_cache:await"}
            /\ reply.opened # <<>>
            /\ st.kind = "db") => reply.exc = "none"
        /\ ProfileWasRead =>
              /\ DOMAIN cache.v =
                   {prefix \o st.keywords[j][2].v : j \in ValidRecords(st)}
              /\ \A k \in DOMAIN cache.v :
                    /\ cache.v[k].title = k
                    /\ cache.v[k].sub =
                         st.places[st.keywords[LastValid(st, prefix, k)][3]][2]

----------------------------------------------------------------------------
(* C16: a query and a reload leave every profile directory as they found   *)
(* it, also a directory that exists without a places.sqlite: no file is    *)
(* created, written or deleted.                                            *)
C16_ReadsLeaveFilesUnchanged ==
    [][reply'.op \in {"query", "reload_cache", "reload_cache:await"} =>
          fs' = fs]_vars

----------------------------------------------------------------------------
(* C18: the entries of a loaded cache, and the options on display, carry   *)
(* one browser-directory value in their open action, reload action and     *)
(* context data; the query whose load loop fills the cache puts there the  *)
(* firefox_fp setting it read, and no later step (a change of the setting, *)
(* a reload from a context menu, a query) brings in another value.         *)
C18_BrowserDirectoryFrozenAtLoad ==
    /\ [](Cardinality(CarriedFps(cache, shown)) <= 1)
    /\ [][/\ (reply'.op = "query" /\ reply'.loading) =>
                CarriedFps(cache', shown') \subseteq {settings.firefox_fp}
          /\ ~cache.none =>
                CarriedFps(cache', shown') \subseteq CarriedFps(cache, shown)
         ]_vars

\* A reload succeeded after the setting was changed: the cache's entries
\* carry a value that is not the current setting.
C18_Witness ==
    /\ reply.op = "reload_cache:await"
    /\ origin.by = "reload"
    /\ ~cache.none
    /\ DOMAIN cache.v # {}
    /\ \A k \in DOMAIN cache.v :
          /\ cache.v[k].action.v.args[1] # settings.firefox_fp
          /\ cache.v[k].context_data[2] # settings.firefox_fp

====
